---- MODULE Spec2Model ----
(***************************************************************************)
(* Model of tracetools_analysis' MemoryUsageHandler                        *)
(* (tracetools_analysis/processor/memory_usage.py).                        *)
(*                                                                         *)
(* The handler owns a pointer -> size table (self._memory) and a ledger    *)
(* of memory differences (self.data).  Each trace event of one of the six  *)
(* lttng_ust_libc kinds is normalised into one or two calls of _handle.    *)
(***************************************************************************)
EXTENDS Integers, Sequences, FiniteSets, TLC

\* ---------------------------------------------------------------- bounds
\* The ledger length up to which the stream goes on.
MaxLedger == 3

\* The values that the events of the stream carry: the null pointer and two
\* addresses, the size 0 and two other sizes, and the member counts 0 to 2.
Pointers == {0, 1, 2}
Sizes == {0, 1, 2}
Nmembs == {0, 1, 2}

\* ------------------------------------------------------------ the inputs
\* EventMetadata: the timestamp and the thread id of an event.
EventMetadata ==
    {[timestamp |-> 1, tid |-> 11], [timestamp |-> 2, tid |-> 12]}

\* The event kinds bound by the handler, and one kind it does not bind.
MallocType == "lttng_ust_libc:malloc"
CallocType == "lttng_ust_libc:calloc"
ReallocType == "lttng_ust_libc:realloc"
FreeType == "lttng_ust_libc:free"
MemalignType == "lttng_ust_libc:memalign"
PosixMemalignType == "lttng_ust_libc:posix_memalign"
OtherType == "sched_switch"

\* The fields a raw event of each kind may carry.
FieldNames(type) ==
    CASE type = MallocType -> {"ptr", "size"}
      [] type = CallocType -> {"ptr", "nmemb", "size"}
      [] type = ReallocType -> {"ptr", "in_ptr", "size"}
      [] type = FreeType -> {"ptr"}
      [] type = MemalignType -> {"ptr", "size"}
      [] type = PosixMemalignType -> {"out_ptr", "size"}
      [] OTHER -> {"ptr"}

FieldValues(name) ==
    CASE name = "size" -> Sizes
      [] name = "nmemb" -> Nmembs
      [] OTHER -> Pointers

\* A raw event is a dictionary from field names to values; any field may be
\* absent from it.
Events(type) ==
    UNION {{ev \in [present -> Pointers \cup Sizes \cup Nmembs] :
                \A name \in present : ev[name] \in FieldValues(name)} :
           present \in SUBSET FieldNames(type)}

EventTypes == {MallocType, CallocType, ReallocType, FreeType, MemalignType,
               PosixMemalignType, OtherType}

EventsOf == [type \in EventTypes |-> Events(type)]

\* ------------------------------------------------------------- the state
VARIABLES
    memory,      \* self._memory: pointer -> current memory size
    data,        \* self.data: the ledger of memory differences
    pc,          \* "idle" between two events, "done" after handling one
    current,     \* the event being handled: its type, fields and metadata
    raised,      \* whether handling the event raised
    calls,       \* the <<ptr, size>> arguments of the event's _handle calls
    lastEffect,  \* per pointer, <<size>> of the last _handle call on it
    pre          \* memory, data, lastEffect as the event found them

vars == <<memory, data, pc, current, raised, calls, lastEffect, pre>>

\* ------------------------------------------------------ field extraction
\* get_field raises when the field is absent; the exception leaves the
\* handler, whose state keeps what was done before it.
HasField(event, name) == name \in DOMAIN event

get_field(event, name) == event[name]

Raise(st) == [st EXCEPT !.raised = TRUE]

\* ----------------------------------------------------- the data model
\* MemoryUsageDataModel.add_memory_difference appends one record.
add_memory_difference(ledger, timestamp, tid, memory_diff) ==
    Append(ledger, [timestamp |-> timestamp, tid |-> tid,
                    memory_diff |-> memory_diff])

\* ------------------------------------------------- the allocation tracker
\* dict.get(ptr, None) followed by the "is not None" test.
Known(mem, ptr) == ptr \in DOMAIN mem

\* Store with the bug of adding the size to the entry that is there.
Store_accumulate(mem, ptr, size) ==
    [p \in DOMAIN mem \cup {ptr} |->
        IF p = ptr
        THEN IF ptr \in DOMAIN mem THEN mem[ptr] + size ELSE size
        ELSE mem[p]]

\* self._memory[ptr] = memory_difference
Store(mem, ptr, size) ==
    [p \in DOMAIN mem \cup {ptr} |-> IF p = ptr THEN size ELSE mem[p]]

\* MemoryDifference with the bug of not negating the size of a release.
MemoryDifference_unsigned(mem, ptr, size) ==
    IF size # 0 THEN size
    ELSE IF Known(mem, ptr) THEN mem[ptr] ELSE 0

\* The value of memory_difference when _handle reaches its last line.
MemoryDifference(mem, ptr, size) ==
    IF size # 0 THEN size
    ELSE IF Known(mem, ptr) THEN -mem[ptr] ELSE 0

\* _handle with the bug of appending no record when the difference is 0.
_handle_suppress_zero(st, metadata, ptr, size) ==
    [memory |-> IF size # 0 THEN Store(st.memory, ptr, size) ELSE st.memory,
     data   |-> IF MemoryDifference(st.memory, ptr, size) = 0 THEN st.data
                ELSE add_memory_difference(st.data, metadata.timestamp,
                         metadata.tid,
                         MemoryDifference(st.memory, ptr, size)),
     raised |-> st.raised,
     calls  |-> Append(st.calls, <<ptr, size>>)]

\* _handle with the bug of indexing self._memory[ptr] in place of get():
\* the release of a pointer that has no entry raises a KeyError.
_handle_index_lookup(st, metadata, ptr, size) ==
    IF size = 0 /\ ~Known(st.memory, ptr)
    THEN [Raise(st) EXCEPT !.calls = Append(st.calls, <<ptr, size>>)]
    ELSE [memory |-> IF size # 0 THEN Store(st.memory, ptr, size)
                     ELSE st.memory,
          data   |-> add_memory_difference(st.data, metadata.timestamp,
                         metadata.tid,
                         MemoryDifference(st.memory, ptr, size)),
          raised |-> st.raised,
          calls  |-> Append(st.calls, <<ptr, size>>)]

\* _handle with the bug of passing the thread id and the timestamp to the
\* data model in the wrong order.
_handle_swapped_metadata(st, metadata, ptr, size) ==
    [memory |-> IF size # 0 THEN Store(st.memory, ptr, size) ELSE st.memory,
     data   |-> add_memory_difference(st.data, metadata.tid,
                    metadata.timestamp,
                    MemoryDifference(st.memory, ptr, size)),
     raised |-> st.raised,
     calls  |-> Append(st.calls, <<ptr, size>>)]

\* _handle with the bug of deleting the entry of a released pointer.
_handle_delete_on_release(st, metadata, ptr, size) ==
    [memory |-> IF size # 0 THEN Store(st.memory, ptr, size)
                ELSE [p \in DOMAIN st.memory \ {ptr} |-> st.memory[p]],
     data   |-> add_memory_difference(st.data, metadata.timestamp,
                    metadata.tid, MemoryDifference(st.memory, ptr, size)),
     raised |-> st.raised,
     calls  |-> Append(st.calls, <<ptr, size>>)]

\* _handle with the bug of storing the size of every effect, 0 included.
_handle_store_always(st, metadata, ptr, size) ==
    [memory |-> Store(st.memory, ptr, size),
     data   |-> add_memory_difference(st.data, metadata.timestamp,
                    metadata.tid, MemoryDifference(st.memory, ptr, size)),
     raised |-> st.raised,
     calls  |-> Append(st.calls, <<ptr, size>>)]

\* _handle with the bug of an allocation replacing the whole table.
_handle_reset_table(st, metadata, ptr, size) ==
    [memory |-> IF size # 0 THEN Store(<<>>, ptr, size) ELSE st.memory,
     data   |-> add_memory_difference(st.data, metadata.timestamp,
                    metadata.tid, MemoryDifference(st.memory, ptr, size)),
     raised |-> st.raised,
     calls  |-> Append(st.calls, <<ptr, size>>)]

_handle(st, metadata, ptr, size) ==
    [memory |-> IF size # 0 THEN Store(st.memory, ptr, size) ELSE st.memory,
     data   |-> add_memory_difference(st.data, metadata.timestamp,
                    metadata.tid, MemoryDifference(st.memory, ptr, size)),
     raised |-> st.raised,
     calls  |-> Append(st.calls, <<ptr, size>>)]

\* ------------------------------------------------------------ the handlers
\* _handle_malloc with the bug of reading the size with a default of 0, so
\* that an event without a size does not raise.
_handle_malloc_default_size(st, event, metadata) ==
    IF ~HasField(event, "ptr") THEN Raise(st)
    ELSE LET ptr == get_field(event, "ptr") IN
         IF ptr # 0
         THEN LET size == IF HasField(event, "size")
                          THEN get_field(event, "size") ELSE 0 IN
              _handle(st, metadata, ptr, size)
         ELSE st

_handle_malloc(st, event, metadata) ==
    IF ~HasField(event, "ptr") THEN Raise(st)
    ELSE LET ptr == get_field(event, "ptr") IN
         IF ptr # 0
         THEN IF ~HasField(event, "size") THEN Raise(st)
              ELSE LET size == get_field(event, "size") IN
                   _handle(st, metadata, ptr, size)
         ELSE st

\* _handle_calloc with the bug of forgetting the member count.
_handle_calloc_size_only(st, event, metadata) ==
    IF ~HasField(event, "ptr") THEN Raise(st)
    ELSE LET ptr == get_field(event, "ptr") IN
         IF ptr # 0
         THEN IF ~HasField(event, "nmemb") THEN Raise(st)
              ELSE IF ~HasField(event, "size") THEN Raise(st)
              ELSE LET size == get_field(event, "size") IN
                   _handle(st, metadata, ptr, size)
         ELSE st

_handle_calloc(st, event, metadata) ==
    IF ~HasField(event, "ptr") THEN Raise(st)
    ELSE LET ptr == get_field(event, "ptr") IN
         IF ptr # 0
         THEN IF ~HasField(event, "nmemb") THEN Raise(st)
              ELSE IF ~HasField(event, "size") THEN Raise(st)
              ELSE LET nmemb == get_field(event, "nmemb")
                       size == get_field(event, "size") IN
                   _handle(st, metadata, ptr, size * nmemb)
         ELSE st

\* _handle_realloc with the bug of recording the allocation before the
\* release.
_handle_realloc_alloc_first(st, event, metadata) ==
    IF ~HasField(event, "ptr") THEN Raise(st)
    ELSE LET ptr == get_field(event, "ptr") IN
         IF ptr # 0
         THEN IF ~HasField(event, "in_ptr") THEN Raise(st)
              ELSE IF ~HasField(event, "size") THEN Raise(st)
              ELSE LET new_ptr == get_field(event, "in_ptr")
                       size == get_field(event, "size") IN
                   _handle(_handle(st, metadata, new_ptr, size),
                           metadata, ptr, 0)
         ELSE st

\* _handle_realloc with the bug of releasing ptr before it reads in_ptr
\* and size.
_handle_realloc_late_fields(st, event, metadata) ==
    IF ~HasField(event, "ptr") THEN Raise(st)
    ELSE LET ptr == get_field(event, "ptr") IN
         IF ptr # 0
         THEN LET released == _handle(st, metadata, ptr, 0) IN
              IF ~HasField(event, "in_ptr") THEN Raise(released)
              ELSE IF ~HasField(event, "size") THEN Raise(released)
              ELSE LET new_ptr == get_field(event, "in_ptr")
                       size == get_field(event, "size") IN
                   _handle(released, metadata, new_ptr, size)
         ELSE st

_handle_realloc(st, event, metadata) ==
    IF ~HasField(event, "ptr") THEN Raise(st)
    ELSE LET ptr == get_field(event, "ptr") IN
         IF ptr # 0
         THEN IF ~HasField(event, "in_ptr") THEN Raise(st)
              ELSE IF ~HasField(event, "size") THEN Raise(st)
              ELSE LET new_ptr == get_field(event, "in_ptr")
                       size == get_field(event, "size") IN
                   _handle(_handle(st, metadata, ptr, 0),
                           metadata, new_ptr, size)
         ELSE st

\* _handle_free with the bug of lacking the guard on a null pointer.
_handle_free_unguarded(st, event, metadata) ==
    IF ~HasField(event, "ptr") THEN Raise(st)
    ELSE LET ptr == get_field(event, "ptr") IN
         _handle(st, metadata, ptr, 0)

_handle_free(st, event, metadata) ==
    IF ~HasField(event, "ptr") THEN Raise(st)
    ELSE LET ptr == get_field(event, "ptr") IN
         IF ptr # 0
         THEN _handle(st, metadata, ptr, 0)
         ELSE st

_handle_memalign(st, event, metadata) ==
    IF ~HasField(event, "ptr") THEN Raise(st)
    ELSE LET ptr == get_field(event, "ptr") IN
         IF ptr # 0
         THEN IF ~HasField(event, "size") THEN Raise(st)
              ELSE LET size == get_field(event, "size") IN
                   _handle(st, metadata, ptr, size)
         ELSE st

_handle_posix_memalign(st, event, metadata) ==
    IF ~HasField(event, "out_ptr") THEN Raise(st)
    ELSE LET ptr == get_field(event, "out_ptr") IN
         IF ptr # 0
         THEN IF ~HasField(event, "size") THEN Raise(st)
              ELSE LET size == get_field(event, "size") IN
                   _handle(st, metadata, ptr, size)
         ELSE st

\* --------------------------------------------------------------- dispatch
\* handler_map with the bug of binding one more event type.
handler_map_extra ==
    (MallocType :> "_handle_malloc") @@
    (CallocType :> "_handle_calloc") @@
    (ReallocType :> "_handle_realloc") @@
    (FreeType :> "_handle_free") @@
    (MemalignType :> "_handle_memalign") @@
    (PosixMemalignType :> "_handle_posix_memalign") @@
    (OtherType :> "_handle_free")

\* Link event to handling method.
handler_map ==
    (MallocType :> "_handle_malloc") @@
    (CallocType :> "_handle_calloc") @@
    (ReallocType :> "_handle_realloc") @@
    (FreeType :> "_handle_free") @@
    (MemalignType :> "_handle_memalign") @@
    (PosixMemalignType :> "_handle_posix_memalign")

CallHandler(method, st, event, metadata) ==
    CASE method = "_handle_malloc" -> _handle_malloc(st, event, metadata)
      [] method = "_handle_calloc" -> _handle_calloc(st, event, metadata)
      [] method = "_handle_realloc" -> _handle_realloc(st, event, metadata)
      [] method = "_handle_free" -> _handle_free(st, event, metadata)
      [] method = "_handle_memalign" -> _handle_memalign(st, event, metadata)
      [] method = "_handle_posix_memalign" ->
             _handle_posix_memalign(st, event, metadata)

\* The registry invokes the handler registered for the type of the event
\* and skips an event whose type has none.
dispatch(st, type, event, metadata) ==
    IF type \in DOMAIN handler_map
    THEN CallHandler(handler_map[type], st, event, metadata)
    ELSE st

\* The handler's state as one event starts being handled.
Entry == [memory |-> memory, data |-> data, raised |-> FALSE,
            calls |-> <<>>]

\* <<size>> of the last call of _handle on pointer p among cs, or prev.
RECURSIVE LastSizeOn(_, _, _)
LastSizeOn(cs, p, prev) ==
    IF cs = <<>> THEN prev
    ELSE LET call == cs[Len(cs)] IN
         IF call[1] = p THEN <<call[2]>>
         ELSE LastSizeOn(SubSeq(cs, 1, Len(cs) - 1), p, prev)

Snapshot(mem, ledger, effects) ==
    [memory |-> mem, data |-> ledger, lastEffect |-> effects]

NoEvent == [type |-> "none", fields |-> <<>>,
            metadata |-> [timestamp |-> 0, tid |-> 0]]

\* ------------------------------------------------------------ the actions
Init ==
    /\ memory = <<>>
    /\ data = <<>>
    /\ pc = "idle"
    /\ current = NoEvent
    /\ raised = FALSE
    /\ calls = <<>>
    /\ lastEffect = [p \in Pointers |-> <<>>]
    /\ pre = Snapshot(<<>>, <<>>, [p \in Pointers |-> <<>>])

\* The next event of the stream is dispatched and handled to its end.
Process(type, fields, metadata) ==
    \E st \in {dispatch(Entry, type, fields, metadata)} :
        /\ current' = [type |-> type, fields |-> fields,
                       metadata |-> metadata]
        /\ memory' = st.memory
        /\ data' = st.data
        /\ raised' = st.raised
        /\ calls' = st.calls
        /\ lastEffect' = [p \in Pointers |->
                              LastSizeOn(st.calls, p, lastEffect[p])]
        /\ pre' = Snapshot(memory, data, lastEffect)
        /\ pc' = "done"

Malloc ==
    /\ pc = "idle"
    /\ Len(data) < MaxLedger
    /\ \E fields \in EventsOf[MallocType], metadata \in EventMetadata :
           Process(MallocType, fields, metadata)

Calloc ==
    /\ pc = "idle"
    /\ Len(data) < MaxLedger
    /\ \E fields \in EventsOf[CallocType], metadata \in EventMetadata :
           Process(CallocType, fields, metadata)

Realloc ==
    /\ pc = "idle"
    /\ Len(data) < MaxLedger
    /\ \E fields \in EventsOf[ReallocType], metadata \in EventMetadata :
           Process(ReallocType, fields, metadata)

Free ==
    /\ pc = "idle"
    /\ Len(data) < MaxLedger
    /\ \E fields \in EventsOf[FreeType], metadata \in EventMetadata :
           Process(FreeType, fields, metadata)

Memalign ==
    /\ pc = "idle"
    /\ Len(data) < MaxLedger
    /\ \E fields \in EventsOf[MemalignType], metadata \in EventMetadata :
           Process(MemalignType, fields, metadata)

PosixMemalign ==
    /\ pc = "idle"
    /\ Len(data) < MaxLedger
    /\ \E fields \in EventsOf[PosixMemalignType], metadata \in EventMetadata :
           Process(PosixMemalignType, fields, metadata)

\* An event of a type that the handler does not bind.
Unregistered ==
    /\ pc = "idle"
    /\ Len(data) < MaxLedger
    /\ \E fields \in EventsOf[OtherType], metadata \in EventMetadata :
           Process(OtherType, fields, metadata)

\* The processing loop moves on to the next event of the stream.
Advance ==
    /\ pc = "done"
    /\ pc' = "idle"
    /\ current' = NoEvent
    /\ raised' = FALSE
    /\ calls' = <<>>
    /\ pre' = Snapshot(memory, data, lastEffect)
    /\ UNCHANGED <<memory, data, lastEffect>>

Next ==
    \/ Malloc
    \/ Calloc
    \/ Realloc
    \/ Free
    \/ Memalign
    \/ PosixMemalign
    \/ Unregistered
    \/ Advance

Spec == Init /\ [][Next]_vars

\* ============================================================ the claims
\* What the claims read of the event that was just handled.
Done == pc = "done"

Has(name) == name \in DOMAIN current.fields

Field(name) == current.fields[name]

\* The records that the event appended to the ledger.
Appended == SubSeq(data, Len(pre.data) + 1, Len(data))

\* The record that _handle appends for the metadata of the event.
Record(diff) ==
    [timestamp |-> current.metadata.timestamp,
     tid |-> current.metadata.tid, memory_diff |-> diff]

\* The delta of a release of ptr resolved against the table mem.
ReleaseOf(mem, ptr) == IF ptr \in DOMAIN mem THEN -mem[ptr] ELSE 0

\* A free event on a nonzero pointer, Field("ptr"), was handled.
FreeEvent ==
    Done /\ current.type = FreeType /\ Has("ptr") /\ Field("ptr") # 0

\* A realloc event that carries its three fields, Field("ptr") nonzero, was
\* handled.
ReallocEvent ==
    /\ Done /\ current.type = ReallocType
    /\ Has("ptr") /\ Has("in_ptr") /\ Has("size")
    /\ Field("ptr") # 0

\* A malloc event that carries its two fields, Field("ptr") nonzero, was
\* handled.
MallocEvent ==
    /\ Done /\ current.type = MallocType /\ Has("ptr") /\ Has("size")
    /\ Field("ptr") # 0

\* ---------------------------------------------------------------- C1
\* C1 as stated: a release (a free, or the first step of a realloc) of a
\* nonzero pointer that has no table entry appends no record to the ledger,
\* leaves the table unchanged and raises no error.
C1_UnknownReleaseAppendsNothing ==
    /\ (FreeEvent /\ Field("ptr") \notin DOMAIN pre.memory) =>
           (data = pre.data /\ memory = pre.memory /\ ~raised)
    /\ (ReallocEvent /\ Field("ptr") \notin DOMAIN pre.memory
            /\ Field("in_ptr") # 0 /\ Field("size") # 0) =>
           (Appended = <<Record(Field("size"))>> /\ ~raised)

\* C1 amended: a release of a nonzero pointer that has no table entry leaves
\* the table unchanged and raises no error, and it appends one record whose
\* size_delta is 0; every call of _handle appends exactly one record,
\* whether or not it changes the table.
C1_UnknownReleaseAppendsZeroRecord ==
    Done =>
        /\ Len(data) = Len(pre.data) + Len(calls)
        /\ (FreeEvent /\ Field("ptr") \notin DOMAIN pre.memory) =>
               /\ data = Append(pre.data, Record(0))
               /\ memory = pre.memory
               /\ ~raised
        /\ (ReallocEvent /\ Field("ptr") \notin DOMAIN pre.memory) =>
               /\ Len(Appended) = 2
               /\ Appended[1] = Record(0)
               /\ \A q \in DOMAIN pre.memory \ {Field("in_ptr")} :
                      q \in DOMAIN memory /\ memory[q] = pre.memory[q]
               /\ DOMAIN memory \subseteq
                      DOMAIN pre.memory \cup {Field("in_ptr")}
               /\ ~raised

\* A free of a pointer that was never allocated, after an allocation
\* elsewhere, has appended its zero record.
C1_Witness ==
    /\ FreeEvent /\ Field("ptr") \notin DOMAIN pre.memory
    /\ pre.memory # <<>>
    /\ Len(data) = Len(pre.data) + 1
    /\ data[Len(data)].memory_diff = 0

\* ---------------------------------------------------------------- C2
\* C2: handling free(p) for a nonzero pointer p that has no table entry
\* never raises, leaves the table unchanged, and every record it appends
\* has size_delta 0.
C2_UnknownFreeIsZero ==
    (FreeEvent /\ Field("ptr") \notin DOMAIN pre.memory) =>
        /\ ~raised
        /\ memory = pre.memory
        /\ \A i \in 1..Len(Appended) : Appended[i].memory_diff = 0

\* A free of an unknown pointer was handled while another pointer is tracked.
C2_Witness ==
    /\ FreeEvent /\ Field("ptr") \notin DOMAIN pre.memory
    /\ \E q \in DOMAIN memory : q # Field("ptr")
    /\ Appended # <<>>

\* ---------------------------------------------------------------- C3
\* C3: conservation.  An allocation of N > 0 at p appends +N; a free(p)
\* whose last preceding effect on p was an allocation of N appends -N, so
\* the two records sum to 0; in general a release of a pointer whose table
\* entry is s (a free, or the first step of a realloc) appends exactly -s.
C3_Conservation ==
    /\ (MallocEvent /\ Field("size") > 0) =>
           data = Append(pre.data, Record(Field("size")))
    /\ FreeEvent =>
           /\ (/\ pre.lastEffect[Field("ptr")] # <<>>
               /\ pre.lastEffect[Field("ptr")][1] > 0) =>
                  data = Append(pre.data,
                                Record(-pre.lastEffect[Field("ptr")][1]))
           /\ Field("ptr") \in DOMAIN pre.memory =>
                  data = Append(pre.data, Record(-pre.memory[Field("ptr")]))
    /\ (ReallocEvent /\ Field("ptr") \in DOMAIN pre.memory) =>
           /\ Appended # <<>>
           /\ Appended[1] = Record(-pre.memory[Field("ptr")])

\* An allocation of 2 followed by the free of its pointer: +2 then -2.
C3_Witness ==
    /\ FreeEvent /\ pre.lastEffect[Field("ptr")] = <<2>>
    /\ Len(data) = 2
    /\ data[1].memory_diff = 2 /\ data[2].memory_diff = -2

\* ---------------------------------------------------------------- C4
\* C4: overwrite semantics.  malloc(p, b) with b > 0 appends +b and sets the
\* table entry of p to b whatever entry a the table held for p; the table
\* entry of a pointer whose last effect was an allocation is the size of
\* that allocation alone; and a free(p) that follows appends -b.
C4_Overwrite ==
    /\ (MallocEvent /\ Field("size") > 0) =>
           /\ data = Append(pre.data, Record(Field("size")))
           /\ Field("ptr") \in DOMAIN memory
           /\ memory[Field("ptr")] = Field("size")
    /\ \A p \in Pointers :
           (lastEffect[p] # <<>> /\ lastEffect[p][1] > 0) =>
               p \in DOMAIN memory /\ memory[p] = lastEffect[p][1]
    /\ (FreeEvent /\ pre.lastEffect[Field("ptr")] # <<>>
            /\ pre.lastEffect[Field("ptr")][1] > 0) =>
           data[Len(data)].memory_diff = -pre.lastEffect[Field("ptr")][1]

\* Allocations of 1 and then of 2 at the same pointer, then its free: the
\* ledger is +1, +2, -2.
C4_Witness ==
    /\ FreeEvent
    /\ DOMAIN memory = {Field("ptr")}
    /\ Len(data) = 3
    /\ data[1].memory_diff = 1
    /\ data[2].memory_diff = 2
    /\ data[3].memory_diff = -2

\* ---------------------------------------------------------------- C5
\* C5 as stated: a realloc with ptr = A # 0, in_ptr = B and size = S appends
\* exactly two records, the release of A and then an allocation record of
\* S; when A = B the table entry of A is S afterwards.
C5_ReallocReleaseThenAllocation ==
    ReallocEvent =>
        /\ Appended = <<Record(ReleaseOf(pre.memory, Field("ptr"))),
                        Record(Field("size"))>>
        /\ Field("ptr") = Field("in_ptr") =>
               /\ Field("ptr") \in DOMAIN memory
               /\ memory[Field("ptr")] = Field("size")

\* C5 amended: such a realloc appends exactly two records, first the release
\* of A resolved against the table from before the event, then the effect
\* of S at B: for S # 0 an allocation record of S, the table entry of B
\* becoming S (also when A = B); for S = 0 a second release, resolved
\* against the entry of B, and the table is unchanged.
C5_ReallocTwoEffectsInOrder ==
    ReallocEvent =>
        /\ ~raised
        /\ calls = <<<<Field("ptr"), 0>>, <<Field("in_ptr"), Field("size")>>>>
        /\ IF Field("size") # 0
           THEN /\ Appended =
                       <<Record(ReleaseOf(pre.memory, Field("ptr"))),
                         Record(Field("size"))>>
                /\ memory = Store(pre.memory, Field("in_ptr"), Field("size"))
           ELSE /\ Appended =
                       <<Record(ReleaseOf(pre.memory, Field("ptr"))),
                         Record(ReleaseOf(pre.memory, Field("in_ptr")))>>
                /\ memory = pre.memory

\* A realloc in place (A = B) of a tracked pointer to another size.
C5_Witness ==
    /\ ReallocEvent
    /\ Field("in_ptr") = Field("ptr") /\ Field("size") = 1
    /\ Field("ptr") \in DOMAIN pre.memory /\ pre.memory[Field("ptr")] = 2
    /\ Appended = <<Record(-2), Record(1)>>
    /\ memory[Field("ptr")] = 1

\* ---------------------------------------------------------------- C6
\* The pointer field that guards the handler of each event kind.
GuardField(type) == IF type = PosixMemalignType THEN "out_ptr" ELSE "ptr"

\* C6: null-pointer guard.  An event of one of the six kinds whose guarding
\* pointer field (ptr; out_ptr for posix_memalign) is 0 leaves the table
\* unchanged and appends no record, whatever its other fields and the
\* state before it.
C6_NullPointerGuard ==
    (/\ Done
     /\ current.type \in DOMAIN handler_map
     /\ Has(GuardField(current.type))
     /\ Field(GuardField(current.type)) = 0) =>
        /\ memory = pre.memory
        /\ data = pre.data
        /\ calls = <<>>

\* A realloc with ptr = 0, a nonzero in_ptr and a nonzero size was handled
\* while the table tracks a pointer.
C6_Witness ==
    /\ Done /\ current.type = ReallocType
    /\ Has("ptr") /\ Field("ptr") = 0
    /\ Has("in_ptr") /\ Field("in_ptr") # 0
    /\ Has("size") /\ Field("size") # 0
    /\ pre.memory # <<>>
    /\ data = pre.data

\* ---------------------------------------------------------------- C7
\* C7: in every reachable state the table has no entry for pointer 0 and no
\* effect was ever applied to pointer 0 (so no record stems from one).
C7_NullPointerNeverTracked ==
    /\ 0 \notin DOMAIN memory
    /\ lastEffect[0] = <<>>

\* ---------------------------------------------------------------- C8
\* C8: calloc multiplication.  A calloc event with ptr # 0, nmemb = n and
\* size = s applies one effect of size s * n at ptr; when s * n # 0 it
\* appends a record of s * n and sets the table entry of ptr to s * n.
C8_CallocMultiplication ==
    (/\ Done /\ current.type = CallocType
     /\ Has("ptr") /\ Has("nmemb") /\ Has("size")
     /\ Field("ptr") # 0) =>
        /\ calls = <<<<Field("ptr"), Field("size") * Field("nmemb")>>>>
        /\ Field("size") * Field("nmemb") # 0 =>
               /\ data = Append(pre.data,
                                Record(Field("size") * Field("nmemb")))
               /\ Field("ptr") \in DOMAIN memory
               /\ memory[Field("ptr")] = Field("size") * Field("nmemb")

\* A calloc of 2 members of size 2 has recorded 4.
C8_Witness ==
    /\ Done /\ current.type = CallocType
    /\ Has("ptr") /\ Has("nmemb") /\ Has("size")
    /\ Field("ptr") # 0 /\ Field("nmemb") = 2 /\ Field("size") = 2
    /\ memory[Field("ptr")] = 4
    /\ data[Len(data)].memory_diff = 4

\* ---------------------------------------------------------------- C9
\* C9: dispatch isolation.  The handler binds exactly the six
\* lttng_ust_libc kinds, and an event of another type leaves the table and
\* the ledger unchanged and does not raise.
C9_DispatchIsolation ==
    /\ DOMAIN handler_map =
           {MallocType, CallocType, ReallocType, FreeType, MemalignType,
            PosixMemalignType}
    /\ (Done /\ current.type \notin
            {MallocType, CallocType, ReallocType, FreeType, MemalignType,
             PosixMemalignType}) =>
           /\ memory = pre.memory
           /\ data = pre.data
           /\ ~raised

\* An event of an unbound type was handled while the table and the ledger
\* are not empty.
C9_Witness ==
    /\ Done /\ current.type = OtherType
    /\ memory # <<>>
    /\ data # <<>>
    /\ data = pre.data

\* --------------------------------------------------------------- C10
IsPrefix(s, t) == Len(s) <= Len(t) /\ SubSeq(t, 1, Len(s)) = s

\* C10: the ledger is append-only and in processing order.  It starts
\* empty; every step leaves it as it is or extends it at its end, the
\* ledger before the step being a prefix of the one after it; and each
\* record that a step appends carries the timestamp and the thread id of
\* the metadata of the event handled by that step.
C10_AppendOnlyLedger ==
    /\ data = <<>>
    /\ [][/\ IsPrefix(data, data')
          /\ \A i \in (Len(data) + 1)..Len(data') :
                 /\ data'[i].timestamp = current'.metadata.timestamp
                 /\ data'[i].tid = current'.metadata.tid]_vars

\* A second event, of other metadata than the first, has appended to a
\* ledger that is not empty.
C10_Witness ==
    /\ Done
    /\ pre.data # <<>>
    /\ Len(data) > Len(pre.data)
    /\ data[1].timestamp # data[Len(data)].timestamp
    /\ data[1].tid # data[Len(data)].tid

\* --------------------------------------------------------------- C11
\* An event of a bound kind lacks one of the fields listed for its kind.
LacksField ==
    \E name \in FieldNames(current.type) : ~Has(name)

\* C11 as stated: an event of one of the six kinds that lacks any field
\* listed for its kind fails with a missing-field error.
C11_AnyMissingFieldRaises ==
    (Done /\ current.type \in DOMAIN handler_map /\ LacksField) => raised

\* C11 amended: an event of one of the six kinds fails with a missing-field
\* error exactly when its guarding pointer field (ptr; out_ptr for
\* posix_memalign) is absent, or that field is nonzero and another field
\* listed for its kind is absent; when the guarding pointer is 0 the other
\* fields are not read and their absence raises nothing.
C11_MissingFieldRaisesBehindGuard ==
    (Done /\ current.type \in DOMAIN handler_map) =>
        (raised <=>
            \/ ~Has(GuardField(current.type))
            \/ Field(GuardField(current.type)) # 0 /\ LacksField)

\* A malloc on a nonzero pointer that lacks its size has raised while the
\* table tracks a pointer.
C11_Witness ==
    /\ Done /\ current.type = MallocType
    /\ Has("ptr") /\ Field("ptr") # 0 /\ ~Has("size")
    /\ raised
    /\ pre.memory # <<>>

\* --------------------------------------------------------------- C12
\* C12: every pointer of the table is a live allocation: the last effect
\* applied to it was an allocation of a nonzero size, not a release.
C12_TableHoldsLiveAllocations ==
    \A p \in DOMAIN memory :
        lastEffect[p] # <<>> /\ lastEffect[p][1] > 0

\* --------------------------------------------------------------- C13
\* The event made a call of _handle of a nonzero size on pointer q.
AllocatedAt(q) ==
    \E i \in 1..Len(calls) : calls[i][1] = q /\ calls[i][2] # 0

\* C13: a release never modifies the table.  No event removes an entry, so
\* the pointers of the table only grow; an entry is new or changed only if
\* the event applied a nonzero-size effect to that same pointer; and an
\* event whose effects are all releases leaves the table as it was.
C13_ReleaseKeepsTable ==
    /\ DOMAIN pre.memory \subseteq DOMAIN memory
    /\ \A q \in DOMAIN memory :
           (q \notin DOMAIN pre.memory \/ memory[q] # pre.memory[q]) =>
               AllocatedAt(q)
    /\ (\A i \in 1..Len(calls) : calls[i][2] = 0) => memory = pre.memory

\* The free of a tracked pointer has appended its negative record and the
\* table still holds the entry.
C13_Witness ==
    /\ FreeEvent
    /\ Field("ptr") \in DOMAIN pre.memory
    /\ memory = pre.memory
    /\ Appended = <<Record(-pre.memory[Field("ptr")])>>

\* --------------------------------------------------------------- C14
\* The sum of the size_delta values of a ledger.
RECURSIVE LedgerSum(_)
LedgerSum(ledger) ==
    IF ledger = <<>> THEN 0
    ELSE ledger[Len(ledger)].memory_diff
             + LedgerSum(SubSeq(ledger, 1, Len(ledger) - 1))

\* C14: the cumulative sum of the size_delta values of the ledger is never
\* negative, the sizes of the stream being all >= 0.
C14_CumulativeSumNonNegative == LedgerSum(data) >= 0

\* --------------------------------------------------------------- C15
\* C15: an event whose handling fails with a missing-field error changes
\* neither the table nor the ledger: every field is read before the first
\* effect is applied, so no call of _handle precedes the error; a realloc
\* that lacks in_ptr or size does not leave its release alone in the
\* ledger.
C15_FailedEventChangesNothing ==
    (Done /\ raised) =>
        /\ memory = pre.memory
        /\ data = pre.data
        /\ calls = <<>>

\* A realloc of a tracked pointer that lacks size has failed.
C15_Witness ==
    /\ Done /\ current.type = ReallocType
    /\ Has("ptr") /\ Has("in_ptr") /\ ~Has("size")
    /\ Field("ptr") \in DOMAIN pre.memory /\ Field("ptr") # 0
    /\ raised
    /\ data = pre.data

\* --------------------------------------------------------------- C16
AllocatingTypes ==
    {MallocType, CallocType, MemalignType, PosixMemalignType}

\* C16: an event of an allocating kind (malloc, calloc, memalign,
\* posix_memalign) never appends a record of a negative size_delta.
C16_AllocatingKindsNeverNegative ==
    (Done /\ current.type \in AllocatingTypes) =>
        \A i \in 1..Len(Appended) : Appended[i].memory_diff >= 0

\* --------------------------------------------------------------- C17
\* C17: every value that the table holds is a positive integer.
C17_TableValuesPositive ==
    \A p \in DOMAIN memory : memory[p] \in Nat \ {0}

\* A calloc of no members at a tracked pointer has been handled and the
\* table holds the positive size it held before.
C17_Witness ==
    /\ Done /\ current.type = CallocType
    /\ Has("ptr") /\ Has("nmemb") /\ Has("size")
    /\ Field("ptr") \in DOMAIN pre.memory /\ Field("ptr") # 0
    /\ Field("nmemb") = 0
    /\ Len(Appended) = 1
    /\ memory[Field("ptr")] > 0

\* --------------------------------------------------------------- C18
\* The pointers that the calls cs of _handle touch.
PointersOf(cs) == {cs[i][1] : i \in 1..Len(cs)}

\* The handler's state with table mem and ledger ledger as an event starts
\* being handled.
EntryOf(mem, ledger) ==
    [memory |-> mem, data |-> ledger, raised |-> FALSE, calls |-> <<>>]

\* The records that handling one event appended to the ledger before.
AppendedTo(before, after) == SubSeq(after, Len(before) + 1, Len(after))

\* The handled event and the event (type2, fields2, metadata2), applied to
\* the state that the handled event found, give the same table and the
\* same records, event by event, in the two orders.
Commutes(type2, fields2, metadata2) ==
    \E second \in {dispatch(EntryOf(pre.memory, pre.data),
                            type2, fields2, metadata2)} :
        PointersOf(second.calls) \cap PointersOf(calls) = {} =>
            \E firstSecond \in {dispatch(EntryOf(memory, data),
                                         type2, fields2, metadata2)},
               secondFirst \in {dispatch(EntryOf(second.memory, second.data),
                                         current.type, current.fields,
                                         current.metadata)} :
                /\ firstSecond.memory = secondFirst.memory
                /\ AppendedTo(second.data, secondFirst.data) = Appended
                /\ AppendedTo(data, firstSecond.data)
                       = AppendedTo(pre.data, second.data)

\* A shorter stream: the processing loop handles an event only while the
\* ledger holds fewer than SwapLedger records.
SwapLedger == MaxLedger - 1

HandleEvent(type) ==
    /\ pc = "idle"
    /\ Len(data) < SwapLedger
    /\ \E fields \in EventsOf[type], metadata \in EventMetadata :
           Process(type, fields, metadata)

NextSwap ==
    \/ \E type \in EventTypes : HandleEvent(type)
    \/ Advance

SpecSwap == Init /\ [][NextSwap]_vars

\* C18: effects on different pointers are independent.  An event leaves
\* the entry of every pointer that its effects do not touch as it was, and
\* two adjacent events whose effects touch disjoint sets of pointers give,
\* in either order, the same final table and the same size_delta in the
\* records of each event.
C18_DisjointPointersIndependent ==
    Done =>
        /\ \A q \in Pointers \ PointersOf(calls) :
               /\ q \in DOMAIN memory <=> q \in DOMAIN pre.memory
               /\ q \in DOMAIN memory => memory[q] = pre.memory[q]
        /\ \A type2 \in EventTypes :
               \A fields2 \in EventsOf[type2], metadata2 \in EventMetadata :
                   Commutes(type2, fields2, metadata2)

\* An allocation at pointer 2 has been handled where pointer 1 was
\* tracked; the free of pointer 1 touches only pointer 1.
C18_Witness ==
    /\ Done /\ current.type = MallocType
    /\ calls = <<<<2, 1>>>>
    /\ 1 \in DOMAIN pre.memory
    /\ memory[1] = pre.memory[1]
    /\ memory[2] = 1
    /\ dispatch(EntryOf(pre.memory, pre.data), FreeType, [ptr |-> 1],
                current.metadata).calls = <<<<1, 0>>>>

====
